---- MODULE Spec2Model ----
(***************************************************************************)
(* Model of impactlab: the index algebra (mockfs.SuperIndex), the archive  *)
(* registry (mockfs.Archive, mockfs.Variable, mockfs.DataAPI) and the      *)
(* pipeline decorators (impactlab.uses, impactlab.updates,                 *)
(* impactlab.iters).                                                       *)
(*                                                                         *)
(* Python values are represented as follows.                               *)
(*   str            a TLA+ string; + and str.join are \o                   *)
(*   dict           a sequence of <<key, value>> pairs with distinct keys, *)
(*                  in insertion order (OrderedDict / kwargs order)        *)
(*   None           <<>> ; a supplied optional argument x is <<x>>         *)
(*   SuperIndex     [name, components]                                     *)
(*   Variable       [kind |-> "Variable", name, superindex]                *)
(*   Archive        a reference [kind |-> "Archive", name] into the        *)
(*                  registry cache, whose entry holds the instance's       *)
(*                  fields [id, name, indices, version, value]             *)
(*   anything else  [kind |-> "scalar", val]                               *)
(***************************************************************************)
EXTENDS Integers, Sequences, FiniteSets, TLC

VARIABLES
    a, b, c,    \* index algebra: three operand superindices
    r,          \* index algebra: the operation last applied and its results
    api,        \* the DataAPI instance: its archive cache, and how many
                \* Archive instances have been constructed
    handles,    \* archives the driver has resolved and holds on to
    pc,         \* "idle", or "iters" inside the loop of an iters() wrapper
    frame,      \* the locals of the running iters() wrapper
    last,       \* the top-level call last made and its outcome
    ncalls,     \* number of top-level calls made
    hist,       \* history: per archive name, the values passed to update
    first       \* history: per (variable name, index mapping) resolved, the
                \* instance its first resolution returned

algvars == <<a, b, c, r>>

regvars == <<api, handles, pc, frame, last, ncalls, hist, first>>

vars == <<a, b, c, r, api, handles, pc, frame, last, ncalls, hist, first>>

(***************************************************************************)
(* Bounds                                                                  *)
(***************************************************************************)
MaxVals == 2

MaxRegCalls == 3

MaxPipeCalls == 2

MaxHandles == 1

(***************************************************************************)
(* Python dict primitives                                                  *)
(***************************************************************************)
None == <<>>

Some(x) == <<x>>

DictKeys(d) == [i \in 1..Len(d) |-> d[i][1]]

DictValues(d) == [i \in 1..Len(d) |-> d[i][2]]

DictHas(d, k) == \E i \in 1..Len(d) : d[i][1] = k

DictGet(d, k) == d[CHOOSE i \in 1..Len(d) : d[i][1] = k][2]

DictSet(d, k, v) ==
    IF DictHas(d, k)
    THEN [i \in 1..Len(d) |-> IF d[i][1] = k THEN <<k, v>> ELSE d[i]]
    ELSE Append(d, <<k, v>>)

RECURSIVE DictUpdate(_, _)
DictUpdate(d, e) ==
    IF Len(e) = 0 THEN d
    ELSE DictUpdate(DictSet(d, e[1][1], e[1][2]), Tail(e))

\* the dict as a mapping, for comparing dicts regardless of insertion order
AsMap(d) == [k \in {d[i][1] : i \in 1..Len(d)} |-> DictGet(d, k)]

RECURSIVE Join(_, _)
Join(sep, strs) ==
    IF Len(strs) = 0 THEN ""
    ELSE IF Len(strs) = 1 THEN strs[1]
    ELSE strs[1] \o sep \o Join(sep, Tail(strs))

RECURSIVE _merge_dicts(_)
_merge_dicts(dicts) ==
    IF Len(dicts) = 0 THEN <<>>
    ELSE DictUpdate(_merge_dicts(SubSeq(dicts, 1, Len(dicts) - 1)),
                    dicts[Len(dicts)])


\* zip in place of itertools.product
Product_Zip(lists) ==
    IF Len(lists) = 0 THEN << <<>> >>
    ELSE LET n == CHOOSE k \in 0..Len(lists[1]) :
                     /\ \A j \in 1..Len(lists) : k <= Len(lists[j])
                     /\ \E j \in 1..Len(lists) : k = Len(lists[j])
         IN  [i \in 1..n |-> [j \in 1..Len(lists) |-> lists[j][i]]]

\* itertools.product: the rightmost list advances fastest
RECURSIVE Product(_)
Product(lists) ==
    IF Len(lists) = 0 THEN << <<>> >>
    ELSE LET rest == Product(Tail(lists))
             h == lists[1]
             m == Len(rest)
         IN  [i \in 1..(Len(h) * m) |->
                 <<h[((i - 1) \div m) + 1]>> \o rest[((i - 1) % m) + 1]]

(***************************************************************************)
(* SuperIndex                                                              *)
(***************************************************************************)
ValueError == [error |-> "ValueError"]

SuperIndex(name, values, components) ==
    IF components = None /\ values = None
    THEN [name |-> name, components |-> <<>>]
    ELSE IF components = None
    THEN [name |-> name, components |-> << <<name, values[1]>> >>]
    ELSE IF values = None
    THEN [name |-> name, components |-> components[1]]
    ELSE ValueError


\* the name joined from the operands' names instead of the merged keys
SuperIndex__mul__JoinNames(self, other) ==
    LET new_components == DictUpdate(DictUpdate(<<>>, self.components),
                                     other.components)
        new_name == Join("*", <<self.name, other.name>>)
    IN  SuperIndex(new_name, None, Some(new_components))

SuperIndex__mul__(self, other) ==
    LET new_components == DictUpdate(DictUpdate(<<>>, self.components),
                                     other.components)
        new_name == Join("*", DictKeys(new_components))
    IN  SuperIndex(new_name, None, Some(new_components))

SuperIndex__iter__(self) ==
    IF Len(self.components) > 0
    THEN LET xs == Product(DictValues(self.components))
         IN  [i \in 1..Len(xs) |-> _merge_dicts(xs[i])]
    ELSE <<>>


\* the sliced component keeps the values equal to the key's instead of
\* becoming the key's value
RECURSIVE SliceComponents_Filter(_, _, _)
SliceComponents_Filter(comps, key, acc) ==
    IF Len(comps) = 0 THEN acc
    ELSE LET component == comps[1][1]
         IN  SliceComponents_Filter(Tail(comps), key,
                 IF DictHas(key, component)
                 THEN DictSet(acc, component,
                              SelectSeq(comps[1][2],
                                  LAMBDA x : x = << <<component, DictGet(key, component)>> >>))
                 ELSE DictSet(acc, component, comps[1][2]))

RECURSIVE SliceComponents(_, _, _)
SliceComponents(comps, key, acc) ==
    IF Len(comps) = 0 THEN acc
    ELSE LET component == comps[1][1]
         IN  SliceComponents(Tail(comps), key,
                 IF DictHas(key, component)
                 THEN DictSet(acc, component,
                              << << <<component, DictGet(key, component)>> >> >>)
                 ELSE DictSet(acc, component, comps[1][2]))

SuperIndex__getitem__(self, key) ==
    SuperIndex(self.name, None, Some(SliceComponents(self.components, key, <<>>)))

(***************************************************************************)
(* Variable                                                                *)
(***************************************************************************)
Variable(name, superindex) ==
    [kind |-> "Variable", name |-> name,
     superindex |-> IF superindex = None
                    THEN SuperIndex("empty", None, None)
                    ELSE superindex[1]]

Variable__getitem__(self, key) ==
    Variable(self.name, Some(SuperIndex__getitem__(self.superindex, key)))

(***************************************************************************)
(* Inputs of the index algebra: the dimensions of the registry and of the  *)
(* SuperIndex doctests, each with a list of values                         *)
(***************************************************************************)
RcpValues == <<"rcp26", "rcp45", "rcp60", "rcp85">>

SspValues == <<"ssp1", "ssp2", "ssp3", "ssp4", "ssp5">>

IndValues == <<"1", "2", "3", "4">>

AlgDims == {"rcp", "ssp", "ind"}

DimValues(d) == IF d = "rcp" THEN RcpValues
                ELSE IF d = "ssp" THEN SspValues ELSE IndValues

\* [{d: v} for v in the first n values of d]
Assignments(d, n) == [i \in 1..n |-> << <<d, DimValues(d)[i]>> >>]

(***************************************************************************)
(* Archive                                                                 *)
(***************************************************************************)
\* pd.DataFrame(np.random.random((5,4))): a payload no caller supplied
RandomFrame == [data |-> "random"]

BumpableVersion(major, minor, patch) == <<major, minor, patch>>

Bump(version, kind) ==
    IF kind = "patch" THEN <<version[1], version[2], version[3] + 1>>
    ELSE IF kind = "minor" THEN <<version[1], version[2] + 1, 0>>
    ELSE <<version[1] + 1, 0, 0>>

\* id is the identity of the constructed instance
Archive(id, name, indices) ==
    [id |-> id, name |-> name, indices |-> indices,
     version |-> BumpableVersion(0, 0, 1), value |-> RandomFrame]


\* no bump when the value is the one already held
Archive_update_SkipUnchanged(st, self, value) ==
    IF st.archives[self.name].value = value THEN st
    ELSE [st EXCEPT !.archives[self.name] =
             [@ EXCEPT !.value = value, !.version = Bump(@, "patch")]]

Archive_update(st, self, value) ==
    [st EXCEPT !.archives[self.name] =
        [@ EXCEPT !.value = value, !.version = Bump(@, "patch")]]

(***************************************************************************)
(* DataAPI                                                                 *)
(***************************************************************************)
\* the dimension names in str order
KeyOrder == <<"ind", "rcp", "ssp">>

KeyRank(k) == CHOOSE i \in 1..Len(KeyOrder) : KeyOrder[i] = k

\* insert item into a list sorted by key, after the items with equal key
RECURSIVE InsertByKey(_, _)
InsertByKey(sorted, item) ==
    IF Len(sorted) = 0 THEN <<item>>
    ELSE IF KeyRank(item[1]) < KeyRank(sorted[1][1])
    THEN <<item>> \o sorted
    ELSE <<sorted[1]>> \o InsertByKey(Tail(sorted), item)


\* the items in the order passed
SortedByKey_Unsorted(items) == items

\* sorted(items, key=lambda x: x[0])
RECURSIVE SortedByKey(_)
SortedByKey(items) ==
    IF Len(items) = 0 THEN <<>>
    ELSE InsertByKey(SortedByKey(SubSeq(items, 1, Len(items) - 1)),
                     items[Len(items)])

ArchName(var, indices) ==
    var \o Join("/", DictValues(SortedByKey(indices))) \o ".nc"

DataAPI_superindices ==
    << <<"rcp", SuperIndex("rcp", Some(Assignments("rcp", Len(RcpValues))), None)>>,
       <<"ssp", SuperIndex("ssp", Some(Assignments("ssp", Len(SspValues))), None)>> >>

DataAPI_variables ==
    << <<"/GCP/socioeconomics/popop",
         Variable("/GCP/socioeconomics/popop",
                  Some(DictGet(DataAPI_superindices, "ssp")))>>,
       <<"/GCP/climate/tas",
         Variable("/GCP/climate/tas",
                  Some(DictGet(DataAPI_superindices, "rcp")))>>,
       <<"/GCP/impacts/mortality",
         Variable("/GCP/impacts/mortality",
                  Some(SuperIndex__mul__(DictGet(DataAPI_superindices, "rcp"),
                                         DictGet(DataAPI_superindices, "ssp"))))>>,
       <<"/GCP/climate/tas2_ir",
         Variable("/GCP/climate/tas2_ir",
                  Some(DictGet(DataAPI_superindices, "rcp")))>> >>

\* DataAPI(): no archive cached, no Archive constructed
DataAPI == [archives |-> <<>>, nobjs |-> 0]

get_variable(var) == DictGet(DataAPI_variables, var)

\* returns the registry afterwards and a reference to the cached instance
DataAPI_get_archive(st, var, indices) ==
    LET arch_name == ArchName(var, indices)
    IN  [st |-> IF arch_name \notin DOMAIN st.archives
                THEN [archives |-> st.archives @@
                         (arch_name :> Archive(st.nobjs + 1, arch_name, indices)),
                      nobjs |-> st.nobjs + 1]
                ELSE st,
         ret |-> [kind |-> "Archive", name |-> arch_name]]

Variable_get_archive(st, self, indices) ==
    DataAPI_get_archive(st, self.name, indices)

(***************************************************************************)
(* Pipeline decorators                                                     *)
(***************************************************************************)
HasSuperindex(v) == v.kind = "Variable"

HasIndices(v) == v.kind = "Archive"


\* the bindings are dropped
uses_NoBinding(kwargs, variables) == variables

\* uses(**kwargs)(func)(**variables): the keyword arguments func is called with
uses(kwargs, variables) == DictUpdate(variables, kwargs)


\* an earlier argument wins on a shared dimension name
RECURSIVE CollectIndices_FirstWins(_, _, _)
CollectIndices_FirstWins(st, variables, indices) ==
    IF Len(variables) = 0 THEN indices
    ELSE LET v == variables[1][2]
         IN  CollectIndices_FirstWins(st, Tail(variables),
                 IF HasIndices(v)
                 THEN DictUpdate(st.archives[v.name].indices, indices)
                 ELSE indices)

\* for vname, v in variables.items(): if hasattr(v, 'indices'): ...
RECURSIVE CollectIndices(_, _, _)
CollectIndices(st, variables, indices) ==
    IF Len(variables) = 0 THEN indices
    ELSE LET v == variables[1][2]
         IN  CollectIndices(st, Tail(variables),
                 IF HasIndices(v)
                 THEN DictUpdate(indices, st.archives[v.name].indices)
                 ELSE indices)

\* updates(update_var)(func)(**variables), where func(**variables) returns
\* res; invoked lists the calls of func
updates(st, update_var, res, variables) ==
    LET indices == CollectIndices(st, variables, <<>>)
        got == Variable_get_archive(st, update_var, indices)
    IN  [st |-> Archive_update(got.st, got.ret, res),
         ret |-> None,
         invoked |-> <<variables>>,
         archive |-> got.ret,
         res |-> res]

\* (v.superindex for v in variables.values() if hasattr(v, 'superindex'))
RECURSIVE Superindices(_)
Superindices(variables) ==
    IF Len(variables) = 0 THEN <<>>
    ELSE (IF HasSuperindex(variables[1][2])
          THEN <<variables[1][2].superindex>> ELSE <<>>)
         \o Superindices(Tail(variables))

TypeError == [error |-> "TypeError"]


\* only the first superindex is iterated
Reduce_FirstOnly(seq) == IF Len(seq) = 0 THEN TypeError ELSE seq[1]

\* reduce(lambda x, y: x*y, seq), which raises on an empty seq
RECURSIVE Reduce(_)
Reduce(seq) ==
    IF Len(seq) = 0 THEN TypeError
    ELSE IF Len(seq) = 1 THEN seq[1]
    ELSE SuperIndex__mul__(Reduce(SubSeq(seq, 1, Len(seq) - 1)), seq[Len(seq)])

IsError(x) == "error" \in DOMAIN x

\* {vname: v.get_archive(**indices) if hasattr(v, 'superindex') else v ...}
RECURSIVE SlicedVars(_, _, _, _)
SlicedVars(st, variables, indices, acc) ==
    IF Len(variables) = 0 THEN [st |-> st, sliced_vars |-> acc]
    ELSE LET vname == variables[1][1]
             v == variables[1][2]
         IN  IF HasSuperindex(v)
             THEN LET got == Variable_get_archive(st, v, indices)
                  IN  SlicedVars(got.st, Tail(variables), indices,
                                 Append(acc, <<vname, got.ret>>))
             ELSE SlicedVars(st, Tail(variables), indices,
                             Append(acc, <<vname, v>>))

\* the value a wrapped function computes from its keyword arguments
FuncResult(variables) == [data |-> "func", of |-> variables]

RegInit ==
    /\ api = DataAPI
    /\ handles = <<>>
    /\ pc = "idle"
    /\ frame = <<>>
    /\ last = [kind |-> "none"]
    /\ ncalls = 0
    /\ hist = <<>>
    /\ first = <<>>


BlankNames == {"empty", "blank"}

BaseIndices ==
    {SuperIndex(d, Some(Assignments(d, n)), None) : d \in AlgDims, n \in 1..MaxVals}
    \cup {SuperIndex(n, None, None) : n \in BlankNames}

SliceKeys == {<< <<d, DimValues(d)[i]>> >> : d \in AlgDims, i \in 1..(MaxVals + 1)}

NoResult == [op |-> "none", key |-> <<>>,
             out |-> SuperIndex("empty", None, None),
             out2 |-> SuperIndex("empty", None, None)]

AlgInit ==
    /\ a \in BaseIndices
    /\ b \in BaseIndices
    /\ c \in BaseIndices
    /\ r = NoResult
    /\ RegInit

\* a * b
AlgMul ==
    /\ r' = [NoResult EXCEPT !.op = "mul", !.out = SuperIndex__mul__(a, b)]
    /\ UNCHANGED <<a, b, c>>
    /\ UNCHANGED regvars

\* the product just computed becomes the left operand
AlgKeep ==
    /\ r.op = "mul"
    /\ r.out # a
    /\ a' = r.out
    /\ r' = NoResult
    /\ UNCHANGED <<b, c>>
    /\ UNCHANGED regvars

\* the other operand becomes the right operand
AlgSwap ==
    /\ b # c
    /\ b' = c
    /\ c' = b
    /\ r' = NoResult
    /\ UNCHANGED a
    /\ UNCHANGED regvars

\* (a * b) * c and a * (b * c)
AlgAssoc ==
    /\ r' = [NoResult EXCEPT !.op = "assoc",
                !.out = SuperIndex__mul__(SuperIndex__mul__(a, b), c),
                !.out2 = SuperIndex__mul__(a, SuperIndex__mul__(b, c))]
    /\ UNCHANGED <<a, b, c>>
    /\ UNCHANGED regvars

\* a * blank and blank * a
AlgIdent ==
    /\ \E n \in BlankNames :
         LET blank == SuperIndex(n, None, None)
         IN  r' = [NoResult EXCEPT !.op = "ident",
                      !.out = SuperIndex__mul__(a, blank),
                      !.out2 = SuperIndex__mul__(blank, a)]
    /\ UNCHANGED <<a, b, c>>
    /\ UNCHANGED regvars

\* a[key], and Variable('v', a)[key].superindex
AlgSlice ==
    /\ \E key \in SliceKeys :
         r' = [NoResult EXCEPT !.op = "slice", !.key = key,
                  !.out = SuperIndex__getitem__(a, key),
                  !.out2 = Variable__getitem__(Variable("v", Some(a)), key).superindex]
    /\ UNCHANGED <<a, b, c>>
    /\ UNCHANGED regvars

AlgNext == AlgMul \/ AlgKeep \/ AlgSwap \/ AlgAssoc \/ AlgIdent \/ AlgSlice

SpecAlg == AlgInit /\ [][AlgNext]_vars

(***************************************************************************)
(* Registry operations, called directly by a driver                        *)
(***************************************************************************)
RegVarNames == {"/GCP/climate/tas", "/GCP/impacts/mortality"}

\* keyword arguments **indices of a lookup, in either order; get_archive does
\* not check the values against the superindex
RegIndices ==
    { << <<"rcp", "rcp26">> >>,
      << <<"ssp", "ssp1">> >>,
      << <<"ssp", "rcp26">> >>,
      << <<"rcp", "rcp26">>, <<"ssp", "ssp1">> >>,
      << <<"ssp", "ssp1">>, <<"rcp", "rcp26">> >> }

\* the variable a step updates, as in the example's mortality step
UpdateTargets == {"/GCP/impacts/mortality"}

Values == {[data |-> "v1"], [data |-> "v2"]}

Ref(n) == [kind |-> "Archive", name |-> n]

Scalar(x) == [kind |-> "scalar", val |-> x]

\* what a driver can pass to a step: a Variable, a scalar, a cached archive
ArgValues(st) == {Ref(n) : n \in DOMAIN st.archives}

\* **variables of a call of an updates()-wrapped step, as bound by uses()
Kwargs(st) ==
    {<<>>}
    \cup {<< <<"popop", x>> >> :
             x \in ArgValues(st) \cup {get_variable("/GCP/climate/tas")}}
    \cup {<< <<"popop", x>>, <<"tas", y>> >> :
             x \in ArgValues(st) \cup {get_variable("/GCP/climate/tas")},
             y \in ArgValues(st) \cup {Scalar(5)}}

Pair(var, indices) == <<var, AsMap(indices)>>

Recorded(h, n) == IF n \in DOMAIN h THEN h[n] ELSE <<>>

Record(h, n, value) ==
    [m \in DOMAIN h \cup {n} |->
        IF m = n THEN Append(Recorded(h, n), value) ELSE h[m]]

\* api.get_variable(var).get_archive(**indices)
RegGetArchive ==
    /\ pc = "idle"
    /\ ncalls < MaxRegCalls
    /\ \E var \in RegVarNames, indices \in RegIndices :
         LET got == Variable_get_archive(api, get_variable(var), indices)
             id == got.st.archives[got.ret.name].id
         IN  /\ api' = got.st
             /\ last' = [kind |-> "get_archive", var |-> var,
                         indices |-> indices, ret |-> got.ret, id |-> id]
             /\ first' = IF Pair(var, indices) \in DOMAIN first THEN first
                         ELSE first @@ (Pair(var, indices) :> id)
    /\ ncalls' = ncalls + 1
    /\ UNCHANGED <<handles, pc, frame, hist>>
    /\ UNCHANGED algvars

\* archive.update(value) on an archive the registry has handed out
RegUpdate ==
    /\ pc = "idle"
    /\ ncalls < MaxRegCalls
    /\ \E n \in DOMAIN api.archives, value \in Values :
         /\ api' = Archive_update(api, Ref(n), value)
         /\ last' = [kind |-> "update", name |-> n, value |-> value]
         /\ hist' = Record(hist, n, value)
    /\ ncalls' = ncalls + 1
    /\ UNCHANGED <<handles, pc, frame, first>>
    /\ UNCHANGED algvars

\* a step wrapped in updates(target), whose function returns res
RegUpdates ==
    /\ pc = "idle"
    /\ ncalls < MaxRegCalls
    /\ \E target \in UpdateTargets, variables \in Kwargs(api), res \in Values :
         LET out == updates(api, get_variable(target), res, variables)
         IN  /\ api' = out.st
             /\ last' = [kind |-> "updates", target |-> target,
                         variables |-> variables, res |-> res,
                         ret |-> out.ret, invoked |-> out.invoked,
                         archive |-> out.archive]
             /\ hist' = Record(hist, out.archive.name, out.res)
    /\ ncalls' = ncalls + 1
    /\ UNCHANGED <<handles, pc, frame, first>>
    /\ UNCHANGED algvars

RegNext == RegGetArchive \/ RegUpdate \/ RegUpdates

\* the index algebra is not exercised
AlgIdle ==
    /\ a = SuperIndex("empty", None, None)
    /\ b = SuperIndex("empty", None, None)
    /\ c = SuperIndex("empty", None, None)
    /\ r = NoResult

RegOnlyInit == AlgIdle /\ RegInit

SpecReg == RegOnlyInit /\ [][RegNext]_vars

(***************************************************************************)
(* Pipeline steps run by a driver                                          *)
(***************************************************************************)
V_tas == get_variable("/GCP/climate/tas")

V_popop == get_variable("/GCP/socioeconomics/popop")

V_mortality == get_variable("/GCP/impacts/mortality")

V_tas2_ir == get_variable("/GCP/climate/tas2_ir")

\* **variables of a call of an iters()-wrapped step, as bound by uses()
IterKwargs ==
    { <<>>,
      << <<"n", Scalar(5)>> >>,
      << <<"tas", V_tas>> >>,
      << <<"tas", V_tas>>, <<"popop", V_popop>> >>,
      << <<"popop", V_popop>>, <<"tas", V_tas>> >>,
      << <<"tas", V_tas>>, <<"tas2_ir", V_tas2_ir>> >> }
    \cup {<< <<"tas", handles[i]>> >> : i \in 1..Len(handles)}
    \cup {<< <<"popop", V_popop>>, <<"tas", handles[i]>> >> : i \in 1..Len(handles)}

\* the wrapped function: one that only computes, or one that runs an inner
\* step, bound by uses() to its arguments and wrapped in updates(target)
Bodies ==
    {[kind |-> "plain"],
     [kind |-> "inner", target |-> "/GCP/impacts/mortality"]}

\* the driver resolves an archive and keeps it
PipeResolve ==
    /\ pc = "idle"
    /\ Len(handles) < MaxHandles
    /\ \E q \in {<<V_tas, << <<"rcp", "rcp26">> >> >>,
                  <<V_popop, << <<"ssp", "ssp1">> >> >>} :
         LET got == Variable_get_archive(api, q[1], q[2])
         IN  /\ \A i \in 1..Len(handles) : handles[i] # got.ret
             /\ api' = got.st
             /\ handles' = Append(handles, got.ret)
    /\ UNCHANGED <<pc, frame, last, ncalls, hist, first>>
    /\ UNCHANGED algvars

\* iters()(func)(**variables), up to the first iteration of its loop
ItersCall ==
    /\ pc = "idle"
    /\ ncalls < MaxPipeCalls
    /\ \E variables \in IterKwargs, body \in Bodies :
         LET master_index_list == Reduce(Superindices(variables))
         IN  IF IsError(master_index_list)
             THEN /\ last' = [kind |-> "iters", variables |-> variables,
                              body |-> body, error |-> master_index_list.error,
                              invoked |-> <<>>, pre |-> DOMAIN api.archives]
                  /\ UNCHANGED <<pc, frame>>
             ELSE /\ pc' = "iters"
                  /\ frame' = [variables |-> variables, body |-> body,
                               master_index_list |->
                                   SuperIndex__iter__(master_index_list),
                               i |-> 1, invoked |-> <<>>,
                               pre |-> DOMAIN api.archives]
                  /\ last' = [kind |-> "running"]
    /\ ncalls' = ncalls + 1
    /\ UNCHANGED <<api, handles, hist, first>>
    /\ UNCHANGED algvars

\* one iteration of the loop: resolve the arguments, call func
ItersStep ==
    /\ pc = "iters"
    /\ frame.i <= Len(frame.master_index_list)
    /\ LET indices == frame.master_index_list[frame.i]
           sl == SlicedVars(api, frame.variables, indices, <<>>)
       IN  /\ frame' = [frame EXCEPT !.i = @ + 1,
                                     !.invoked = Append(@, sl.sliced_vars)]
           /\ IF frame.body.kind = "inner"
              THEN LET bound == uses(sl.sliced_vars, <<>>)
                       out == updates(sl.st, get_variable(frame.body.target),
                                      FuncResult(bound), bound)
                   IN  /\ api' = out.st
                       /\ hist' = Record(hist, out.archive.name, out.res)
              ELSE /\ api' = sl.st
                   /\ UNCHANGED hist
    /\ UNCHANGED <<handles, pc, last, ncalls, first>>
    /\ UNCHANGED algvars

\* the loop is exhausted: the wrapper returns None
ItersReturn ==
    /\ pc = "iters"
    /\ frame.i > Len(frame.master_index_list)
    /\ pc' = "idle"
    /\ last' = [kind |-> "iters", variables |-> frame.variables,
                body |-> frame.body, error |-> "none", ret |-> None,
                invoked |-> frame.invoked, pre |-> frame.pre]
    /\ frame' = <<>>
    /\ UNCHANGED <<api, handles, ncalls, hist, first>>
    /\ UNCHANGED algvars

PipeNext == PipeResolve \/ ItersCall \/ ItersStep \/ ItersReturn

SpecPipe == RegOnlyInit /\ [][PipeNext]_vars

(***************************************************************************)
(* Properties of the index algebra                                         *)
(***************************************************************************)
Enumeration(s) == SuperIndex__iter__(s)

DimNames(s) == {s.components[i][1] : i \in 1..Len(s.components)}

NonEmpty(s) == Len(s.components) > 0

RECURSIVE SizeOfOthers(_, _)
SizeOfOthers(comps, d) ==
    IF Len(comps) = 0 THEN 1
    ELSE (IF comps[1][1] = d THEN 1 ELSE Len(comps[1][2]))
         * SizeOfOthers(Tail(comps), d)

\* C6 as stated: for all non-empty superindices A and B the enumeration of
\* A*B has len(list(A)) * len(list(B)) elements.
C6_ProductSizeAnyOperands ==
    (r.op = "mul" /\ NonEmpty(a) /\ NonEmpty(b))
        => Len(Enumeration(r.out)) = Len(Enumeration(a)) * Len(Enumeration(b))

\* C6 amended: for all non-empty superindices A and B that have no dimension
\* name in common, the enumeration of A*B has len(list(A)) * len(list(B))
\* elements.
C6_ProductSizeDisjoint ==
    (r.op = "mul" /\ NonEmpty(a) /\ NonEmpty(b)
        /\ DimNames(a) \cap DimNames(b) = {})
        => Len(Enumeration(r.out)) = Len(Enumeration(a)) * Len(Enumeration(b))

C6_Witness ==
    /\ r.op = "mul"
    /\ Len(a.components) = 2
    /\ Len(b.components) = 1
    /\ DimNames(a) \cap DimNames(b) = {}
    /\ Len(Enumeration(a)) = 4
    /\ Len(Enumeration(b)) = 2
    /\ Len(Enumeration(r.out)) = 8

SlicedAsClaimed(orig, key, sliced) ==
    LET d == key[1][1]
        v == key[1][2]
        elems == Enumeration(sliced)
    IN  /\ sliced.name = orig.name
        /\ \A i \in 1..Len(elems) : DictHas(elems[i], d) /\ DictGet(elems[i], d) = v
        /\ Len(elems) = SizeOfOthers(orig.components, d)

\* C7: slicing a superindex A (or a Variable over A) with a key that restricts
\* one of A's dimensions d to a value v gives a superindex of the same name,
\* every element of whose enumeration has d = v, and whose enumeration has as
\* many elements as the product of the sizes of A's other dimensions.
C7_SliceRestrictsOneDimension ==
    (r.op = "slice" /\ r.key[1][1] \in DimNames(a))
        => /\ SlicedAsClaimed(a, r.key, r.out)
           /\ SlicedAsClaimed(a, r.key, r.out2)

C7_Witness ==
    /\ r.op = "slice"
    /\ Len(a.components) = 2
    /\ r.key[1][1] = a.components[1][1]
    /\ Len(Enumeration(a)) = 4
    /\ Len(Enumeration(r.out)) = 2
    /\ Len(Enumeration(r.out2)) = 2

\* C8: A*E and E*A, for an empty superindex E, have A's dimension names in A's
\* order, the name joined from them, and A's enumeration; (A*B)*C and A*(B*C)
\* have the same name, the same components in the same order and the same
\* enumeration.
C8_ProductIsMonoid ==
    /\ r.op = "ident"
        => \A p \in {r.out, r.out2} :
              /\ DictKeys(p.components) = DictKeys(a.components)
              /\ p.name = Join("*", DictKeys(a.components))
              /\ Enumeration(p) = Enumeration(a)
    /\ r.op = "assoc"
        => /\ r.out.name = r.out2.name
           /\ r.out.components = r.out2.components
           /\ Enumeration(r.out) = Enumeration(r.out2)

C8_Witness ==
    /\ r.op = "assoc"
    /\ Len(a.components) = 2
    /\ NonEmpty(b)
    /\ NonEmpty(c)
    /\ DimNames(a) \cap DimNames(c) # {}
    /\ b.components # c.components
    /\ Len(Enumeration(r.out)) = 4

(***************************************************************************)
(* Properties of the registry                                              *)
(***************************************************************************)
Cache == api.archives

\* C4: an archive on which update has been called N times has version
\* 0.0.(1+N), one patch step per call whatever the values, and holds the
\* argument of the last call (its initial payload when N = 0).
C4_UpdateBumpsPatchAndReplacesValue ==
    \A n \in DOMAIN Cache :
        LET h == Recorded(hist, n)
        IN  /\ Cache[n].version = <<0, 0, 1 + Len(h)>>
            /\ Cache[n].value = IF Len(h) = 0 THEN RandomFrame ELSE h[Len(h)]

C4_Witness ==
    \E n, m \in DOMAIN Cache :
        /\ n # m
        /\ Len(Recorded(hist, n)) = 2
        /\ hist[n][1] = hist[n][2]
        /\ Cache[n].version = <<0, 0, 3>>
        /\ Cache[m].version = <<0, 0, 1>>

\* C5: no step removes an archive from the cache or puts another instance
\* under its name, no two names share an instance, and every resolution of a
\* (variable name, index mapping) pair returns the instance its first
\* resolution returned, unmodified by the lookup, in whatever order the index
\* names are passed; a pair whose canonical name is not cached gets a newly
\* constructed instance.
C5_OneArchivePerNameAndIndices ==
    [][ /\ \A n \in DOMAIN Cache :
              /\ n \in DOMAIN api'.archives
              /\ api'.archives[n].id = Cache[n].id
        /\ \A n, m \in DOMAIN api'.archives :
              (api'.archives[n].id = api'.archives[m].id) => n = m
        /\ (last'.kind = "get_archive" /\ ncalls' # ncalls)
              => LET pair == Pair(last'.var, last'.indices)
                     n == last'.ret.name
                 IN  /\ n \in DOMAIN api'.archives
                     /\ api'.archives[n].id = last'.id
                     /\ last'.id = first'[pair]
                     /\ pair \in DOMAIN first => api'.archives[n] = Cache[n]
                     /\ n \in DOMAIN Cache => api' = api
                     /\ n \notin DOMAIN Cache
                           => /\ \A m \in DOMAIN Cache : Cache[m].id # last'.id
                              /\ api'.archives[n].version = <<0, 0, 1>>
      ]_vars

C5_Witness ==
    /\ last.kind = "get_archive"
    /\ last.indices = << <<"ssp", "ssp1">>, <<"rcp", "rcp26">> >>
    /\ Cache[last.ret.name].indices = << <<"rcp", "rcp26">>, <<"ssp", "ssp1">> >>
    /\ Cache[last.ret.name].version = <<0, 0, 2>>
    /\ first[Pair(last.var, last.indices)] = last.id

(***************************************************************************)
(* Properties of the decorators                                            *)
(***************************************************************************)
\* positions of the arguments that carry indices
ArchiveArgs(variables) ==
    {i \in 1..Len(variables) : variables[i][2].kind = "Archive"}

\* the union of their indices, a later argument overriding an earlier one
UnionOfIndices(st, variables) ==
    LET has(i, k) == DictHas(st.archives[variables[i][2].name].indices, k)
        keys == {k \in {KeyOrder[j] : j \in 1..Len(KeyOrder)} :
                    \E i \in ArchiveArgs(variables) : has(i, k)}
        lastWith(k) == CHOOSE i \in ArchiveArgs(variables) :
                          /\ has(i, k)
                          /\ \A j \in ArchiveArgs(variables) : has(j, k) => j <= i
    IN  [k \in keys |->
            DictGet(st.archives[variables[lastWith(k)][2].name].indices, k)]

\* a mapping as keyword arguments
AsKwargs(map) ==
    LET ks == SelectSeq(KeyOrder, LAMBDA k : k \in DOMAIN map)
    IN  [i \in 1..Len(ks) |-> <<ks[i], map[ks[i]]>>]

RECURSIVE ProductOf(_)
ProductOf(seq) ==
    IF Len(seq) = 0 THEN SuperIndex("empty", None, None)
    ELSE IF Len(seq) = 1 THEN seq[1]
    ELSE SuperIndex__mul__(seq[1], ProductOf(Tail(seq)))

IndexBearing(variables) ==
    [i \in 1..Len(SelectSeq(variables, LAMBDA p : p[2].kind = "Variable")) |->
        SelectSeq(variables, LAMBDA p : p[2].kind = "Variable")[i][2].superindex]

\* the arguments of the invocation for one index tuple
ArgsFor(variables, indices) ==
    [i \in 1..Len(variables) |->
        IF variables[i][2].kind = "Variable"
        THEN <<variables[i][1], Ref(ArchName(variables[i][2].name, indices))>>
        ELSE variables[i]]

ExpectedInvocations(variables) ==
    LET e == Enumeration(ProductOf(IndexBearing(variables)))
    IN  [i \in 1..Len(e) |-> ArgsFor(variables, e[i])]

ArchivesOf(invocation) ==
    {invocation[i][2].name : i \in ArchiveArgs(invocation)}

\* C1: the invocations of the body made by a call of an iters()-wrapped step
\* are, in order, one per element of the enumeration of the product of the
\* superindices of its index-bearing arguments, each with every index-bearing
\* argument replaced by the cached archive of that variable for that index
\* tuple and the other arguments as passed; while the loop runs, the
\* invocations made so far are that list's beginning.
C1_ItersInvokesOncePerIndexTuple ==
    /\ pc = "iters"
        => /\ frame.i - 1 <= Len(ExpectedInvocations(frame.variables))
           /\ frame.invoked =
                 SubSeq(ExpectedInvocations(frame.variables), 1, frame.i - 1)
           /\ \A j \in 1..Len(frame.invoked) :
                 ArchivesOf(frame.invoked[j]) \subseteq DOMAIN Cache
    /\ last.kind = "iters"
        => /\ last.invoked = ExpectedInvocations(last.variables)
           /\ \A j \in 1..Len(last.invoked) :
                 ArchivesOf(last.invoked[j]) \subseteq DOMAIN Cache

C1_Witness ==
    /\ last.kind = "iters"
    /\ last.error = "none"
    /\ Len(last.variables) = 2
    /\ last.variables[1][2] = V_popop
    /\ last.variables[2][2] = V_tas
    /\ Len(last.invoked) = 20
    /\ last.invoked[2][1][2] = Ref(ArchName(V_popop.name,
                                   << <<"ssp", "ssp1">>, <<"rcp", "rcp45">> >>))

\* the cached archives that a variable's get_archive resolves to
ArchivesUnder(v) ==
    {n \in DOMAIN Cache : n = ArchName(v.name, Cache[n].indices)}

\* C3: when the step iterated over one variable indexed by the 4 rcp values
\* and one indexed by the 5 ssp values, its body ran an inner step updating the
\* variable indexed by rcp*ssp, and that variable had no archive before, then
\* on return the variable has exactly 20 archives, one for each (rcp, ssp)
\* combination, each updated exactly once.
C3_TwentyArchivesEachUpdatedOnce ==
    (/\ last.kind = "iters"
     /\ last.error = "none"
     /\ Len(last.variables) = 2
     /\ {last.variables[1][2], last.variables[2][2]} = {V_tas, V_popop}
     /\ last.body.kind = "inner"
     /\ ArchivesUnder(get_variable(last.body.target)) \cap last.pre = {})
        => LET T == ArchivesUnder(get_variable(last.body.target))
           IN  /\ Cardinality(T) = 20
               /\ \A x \in 1..Len(RcpValues), y \in 1..Len(SspValues) :
                     \E n \in T :
                        /\ AsMap(Cache[n].indices) =
                              [rcp |-> RcpValues[x], ssp |-> SspValues[y]]
                        /\ Len(Recorded(hist, n)) = 1
                        /\ Cache[n].version = <<0, 0, 2>>

C3_Witness ==
    /\ last.kind = "iters"
    /\ last.error = "none"
    /\ last.variables = << <<"tas", V_tas>>, <<"popop", V_popop>> >>
    /\ last.body.kind = "inner"
    /\ Cardinality(ArchivesUnder(V_mortality)) = 20
    /\ \A n \in ArchivesUnder(V_mortality) : Len(Recorded(hist, n)) = 1

\* C9: a call of an iters()-wrapped step none of whose arguments has a
\* superindex either invokes the body once with the arguments as passed, or
\* fails with NoIndexDimensionsError.
C9_NoIndexBearingArgumentStillRuns ==
    (last.kind = "iters" /\ Len(IndexBearing(last.variables)) = 0)
        => \/ last.error = "none" /\ last.invoked = <<last.variables>>
           \/ last.error = "NoIndexDimensionsError"

\* C10: every cached archive of a registry variable has index names among the
\* dimension names of the variable's superindex.
C10_ArchiveIndicesWithinSuperindex ==
    \A i \in 1..Len(DataAPI_variables) :
        LET v == DataAPI_variables[i][2]
        IN  \A n \in ArchivesUnder(v) :
               \A j \in 1..Len(Cache[n].indices) :
                  Cache[n].indices[j][1] \in DimNames(v.superindex)

====
